---- MODULE Spec2Model ----
(***************************************************************************)
(* Model of src/main.py (TagGenerator): the frontmatter tag rewrite        *)
(* (_update_frontmatter_tags), the tag normalisation of                    *)
(* _process_single_file, the vocabulary update (_update_topics_file), the  *)
(* processed-files log (_save_processed_file) and the batch loop           *)
(* (process_all_files).                                                    *)
(*                                                                         *)
(* A Python str is a sequence of one-character strings; the regular        *)
(* expressions of the source are matched position by position with the     *)
(* priorities of Python's backtracking matcher.                            *)
(***************************************************************************)
EXTENDS Integers, Sequences, FiniteSets, TLC

(***************************************************************************)
(* Characters and Python's str primitives                                  *)
(***************************************************************************)
NL == "\n"
SP == " "

\* Printable ASCII in code-point order (32..126); sorted() compares by code point.
\* The double quote, the backslash and the backtick are placeholders that keep the positions:
\* no string of the model holds them.
Ascii ==
  << " ", "!", "<quote>", "#", "$", "%", "&", "'", "(", ")", "*", "+", ",", "-", ".", "/",
     "0", "1", "2", "3", "4", "5", "6", "7", "8", "9", ":", ";", "<", "=", ">", "?",
     "@", "A", "B", "C", "D", "E", "F", "G", "H", "I", "J", "K", "L", "M", "N", "O",
     "P", "Q", "R", "S", "T", "U", "V", "W", "X", "Y", "Z", "[", "<backslash>", "]", "^", "_",
     "<backtick>", "a", "b", "c", "d", "e", "f", "g", "h", "i", "j", "k", "l", "m", "n", "o",
     "p", "q", "r", "s", "t", "u", "v", "w", "x", "y", "z", "{", "|", "}", "~" >>

\* The one element of a one-element set. Only({ e(x) : x \in {v} }) is e(v)
\* with v computed once.
Only(S) == CHOOSE x \in S : TRUE

\* The smallest and the largest of a non-empty set of positions.
First(S) == CHOOSE x \in S : \A y \in S : x <= y
Last(S) == CHOOSE x \in S : \A y \in S : y <= x

\* Code point of a character (ord): the control characters lie below " ".
Ord(c) ==
  IF c = "\t" THEN 9
  ELSE IF c = NL THEN 10
  ELSE IF c = "\f" THEN 12
  ELSE IF c = "\r" THEN 13
  ELSE 31 + (CHOOSE k \in 1..Len(Ascii) : Ascii[k] = c)

\* What \s of the re module and str.strip() treat as whitespace.
IsSpace(c) == c \in {SP, NL, "\t", "\r", "\f"}

\* str.lower() on one character: "A".."Z" are 32 code points below "a".."z".
LowerChar(c) ==
  Only({ IF o >= 65 /\ o <= 90 THEN Ascii[o - 31 + 32] ELSE c : o \in {Ord(c)} })

\* p occurs in s at position i (1-based).
OccursAt(s, p, i) ==
  /\ i >= 1
  /\ i + Len(p) - 1 <= Len(s)
  /\ \A k \in 1..Len(p) : s[i + k - 1] = p[k]

\* str.find from position from: the first position >= from where pat occurs,
\* 0 if none.
Find(str, pat, from) ==
  Only({ IF hits = {} THEN 0 ELSE First(hits) :
         hits \in { Only({ { j \in from..(Len(s) + 1) : OccursAt(s, p, j) } :
                           s \in {str}, p \in {pat} }) } })

\* "pat in str"
Contains(str, pat) == Find(str, pat, 1) # 0

\* s[i:j] of Python with 1-based inclusive bounds; empty when j < i.
Slice(s, i, j) == IF j < i THEN << >> ELSE SubSeq(s, i, j)

RECURSIVE ReplaceFrom(_, _, _, _)
\* str.replace(old, new) from position i on: every non-overlapping occurrence,
\* left to right; an empty old matches before every character and at the end.
ReplaceFrom(s, old, new, i) ==
  IF i > Len(s) THEN (IF old = << >> THEN new ELSE << >>)
  ELSE IF old = << >> THEN new \o << s[i] >> \o ReplaceFrom(s, old, new, i + 1)
  ELSE IF OccursAt(s, old, i) THEN new \o ReplaceFrom(s, old, new, i + Len(old))
  ELSE << s[i] >> \o ReplaceFrom(s, old, new, i + 1)

\* str.replace(old, new)
Replace(str, old, new) ==
  Only({ ReplaceFrom(s, o, n, 1) : s \in {str}, o \in {old}, n \in {new} })

\* str.lower()
Lower(str) == Only({ [k \in 1..Len(s) |-> LowerChar(s[k])] : s \in {str} })

\* str.strip(): leading and trailing whitespace removed.
Strip(str) ==
  Only({ Only({ IF keep = {} THEN << >> ELSE SubSeq(s, First(keep), Last(keep)) :
                keep \in { { k \in 1..Len(s) : ~IsSpace(s[k]) } } }) :
         s \in {str} })

\* str.strip(c): leading and trailing occurrences of the character c removed.
StripChar(str, c) ==
  Only({ Only({ IF keep = {} THEN << >> ELSE SubSeq(s, First(keep), Last(keep)) :
                keep \in { { k \in 1..Len(s) : s[k] # c } } }) :
         s \in {str} })

RECURSIVE SplitFrom(_, _, _)
\* str.split(sep) for a one-character separator, from position i on.
SplitFrom(s, sep, i) ==
  Only({ IF j = 0 THEN << Slice(s, i, Len(s)) >>
         ELSE << Slice(s, i, j - 1) >> \o SplitFrom(s, sep, j + 1) :
         j \in {Find(s, << sep >>, i)} })

\* str.split("\n")
Split(str, sep) == Only({ SplitFrom(s, sep, 1) : s \in {str} })

RECURSIVE JoinFrom(_, _, _)
\* sep.join(list) from element k on.
JoinFrom(list, sep, k) ==
  IF k > Len(list) THEN << >>
  ELSE IF k = Len(list) THEN list[k]
  ELSE list[k] \o sep \o JoinFrom(list, sep, k + 1)

\* sep.join(list)
Join(list, sep) == Only({ JoinFrom(l, sep, 1) : l \in {list} })

\* a < b for Python strings: lexicographic by code point, a proper prefix first.
StrLess(a, b) ==
  \E k \in 1..(Len(b)) :
    /\ \A h \in 1..(k - 1) : h <= Len(a) /\ a[h] = b[h]
    /\ k - 1 <= Len(a)
    /\ (k = Len(a) + 1 \/ (k <= Len(a) /\ Ord(a[k]) < Ord(b[k])))

RECURSIVE Sorted(_)
\* sorted(list): ascending, duplicates kept.
Sorted(list) ==
  Only({ IF l = << >> THEN << >>
         ELSE Only({ << l[m] >> \o
                       Sorted([h \in 1..(Len(l) - 1) |-> IF h < m THEN l[h] ELSE l[h + 1]]) :
                     m \in { CHOOSE k \in 1..Len(l) :
                               /\ \A h \in 1..Len(l) : ~StrLess(l[h], l[k])
                               /\ \A h \in 1..(k - 1) : l[h] # l[k] } }) :
         l \in {list} })

\* The elements of a list, as set(list) gives them.
SetOf(list) == Only({ { l[k] : k \in 1..Len(l) } : l \in {list} })

RECURSIVE SortedSet(_)
\* sorted(set): the elements ascending, each once.
SortedSet(set) ==
  Only({ IF S = {} THEN << >>
         ELSE Only({ << m >> \o SortedSet(S \ {m}) :
                     m \in { CHOOSE x \in S : \A y \in S : ~StrLess(y, x) } }) :
         S \in {set} })

(***************************************************************************)
(* The regular expressions of _update_frontmatter_tags                     *)
(***************************************************************************)
DASHES == << "-", "-", "-" >>
TAGS_KEY == << "t", "a", "g", "s", ":" >>
EMPTY_LIST == << "[", "]" >>
ITEM_PREFIX == << SP, SP, "-", SP >>

\* re.match(r"---(.*?)---", content, re.DOTALL): the position of the closing
\* "---" (the first one after the opening "---" at the start), 0 when no match.
frontmatter_match(content) ==
  IF OccursAt(content, DASHES, 1) THEN Find(content, DASHES, Len(DASHES) + 1) ELSE 0

\* frontmatter_match.group(1): the text between the two delimiters.
MatchedFrontmatter(content) ==
  Slice(content, Len(DASHES) + 1, frontmatter_match(content) - 1)

\* The greedy \s* from position i: the first position that holds no whitespace.
SkipSpace(s, i) ==
  CHOOSE j \in i..(Len(s) + 1) :
    /\ (j = Len(s) + 1 \/ ~IsSpace(s[j]))
    /\ \A h \in i..(j - 1) : IsSpace(s[h])

\* \s*\n at position i: the greedy \s* gives back down to the last newline of
\* the whitespace run. The position after the match, 0 when there is none.
SpaceThenNL(s, i) ==
  Only({ IF nls = {} THEN 0 ELSE Last(nls) + 1 :
         nls \in { { k \in i..(SkipSpace(s, i) - 1) : s[k] = NL } } })

\* [^\n]+\n at position i: the position after the match, 0 when there is none.
LineRest(s, i) ==
  IF i > Len(s) \/ s[i] = NL THEN 0
  ELSE Only({ IF j = 0 THEN 0 ELSE j + 1 : j \in {Find(s, << NL >>, i)} })

\* One iteration of (?:\s*-\s*[^\n]+\n) at position p: the position after it,
\* 0 when it does not match. The \s* after the "-" is tried longest first.
ItemEnd(s, p) ==
  Only({ IF q > Len(s) \/ s[q] # "-" THEN 0
         ELSE Only({ IF \A k \in DOMAIN ends : ends[k] = 0 THEN 0
                     ELSE ends[Last({ k \in DOMAIN ends : ends[k] # 0 })] :
                     ends \in { [k \in (q + 1)..SkipSpace(s, q + 1) |-> LineRest(s, k)] } }) :
         q \in {SkipSpace(s, p)} })

RECURSIVE ItemsEnd(_, _)
\* ((?:\s*-\s*[^\n]+\n)*) at position p, greedy: the position after the group.
ItemsEnd(s, p) ==
  Only({ IF e = 0 THEN p ELSE ItemsEnd(s, e) : e \in {ItemEnd(s, p)} })

\* A match: start, end (the position after it) and g1, where group 1 starts
\* (0: the group took no part in the match, group(1) is None).
NoMatch == [start |-> 0, end |-> 0, g1 |-> 0]

\* tags:\s*\[\s*\]\s*\n at position i.
EmptyListAt(s, i) ==
  IF ~OccursAt(s, TAGS_KEY, i) THEN NoMatch
  ELSE Only({ IF a > Len(s) \/ s[a] # "[" THEN NoMatch
              ELSE Only({ IF b > Len(s) \/ s[b] # "]" THEN NoMatch
                          ELSE Only({ IF e = 0 THEN NoMatch
                                      ELSE [start |-> i, end |-> e, g1 |-> 0] :
                                      e \in {SpaceThenNL(s, b + 1)} }) :
                          b \in {SkipSpace(s, a + 1)} }) :
              a \in {SkipSpace(s, i + Len(TAGS_KEY))} })

\* tags:\s*\n((?:\s*-\s*[^\n]+\n)*) at position i.
TagListAt(s, i) ==
  IF ~OccursAt(s, TAGS_KEY, i) THEN NoMatch
  ELSE Only({ IF a = 0 THEN NoMatch
              ELSE [start |-> i, end |-> ItemsEnd(s, a), g1 |-> a] :
              a \in {SpaceThenNL(s, i + Len(TAGS_KEY))} })

\* The two alternatives at position i, the first one tried first.
TagsAt(s, i) ==
  Only({ IF e # NoMatch THEN e ELSE TagListAt(s, i) : e \in {EmptyListAt(s, i)} })

\* re.search(r"tags:\s*\[\s*\]\s*\n|tags:\s*\n((?:\s*-\s*[^\n]+\n)*)", frontmatter):
\* the match at the leftmost position that has one.
tags_match(frontmatter) ==
  Only({ IF \A k \in DOMAIN at : at[k] = NoMatch THEN NoMatch
         ELSE at[First({ k \in DOMAIN at : at[k] # NoMatch })] :
         at \in { [k \in 1..Len(frontmatter) |-> TagsAt(frontmatter, k)] } })

\* re.search(r"tags:\s*\n", frontmatter) is not None
empty_tags_match(frontmatter) ==
  \E k \in 1..Len(frontmatter) :
    OccursAt(frontmatter, TAGS_KEY, k) /\ SpaceThenNL(frontmatter, k + Len(TAGS_KEY)) # 0

RECURSIVE SubTagLists(_, _, _)
\* re.sub(r"tags:\s*\n((?:\s*-\s*[^\n]+\n)*)", repl, s) from position i on:
\* every non-overlapping match, left to right, becomes repl.
SubTagLists(s, repl, i) ==
  IF i > Len(s) THEN << >>
  ELSE Only({ IF m # NoMatch THEN repl \o SubTagLists(s, repl, m.end)
              ELSE << s[i] >> \o SubTagLists(s, repl, i + 1) :
              m \in {TagListAt(s, i)} })

(***************************************************************************)
(* _update_frontmatter_tags and the normalisation before it                *)
(***************************************************************************)
\* "\n".join([f"  - {tag}" for tag in tags])
TagLines(tags) ==
  Only({ Join([k \in 1..Len(t) |-> ITEM_PREFIX \o t[k]], << NL >>) : t \in {tags} })

\* The list items of group 1 as tags: split at newlines, blank lines dropped,
\* each line stripped of whitespace, of "-" and of whitespace again.
current_tags(group1) ==
  Only({ [k \in 1..Len(kept) |-> Strip(StripChar(Strip(kept[k]), "-"))] :
         kept \in { SelectSeq(Split(Strip(group1), NL), LAMBDA l : Strip(l) # << >>) } })

\* Lines 191-218: the frontmatter with the tags in it; raised: group(1) is
\* None and .strip() on it raises AttributeError. updated_tags_str is the
\* serialised sorted(new_tags) of lines 194, 211 and 216.
updated_frontmatter(frontmatter, new_tags) ==
  Only({
    IF m # NoMatch
    THEN IF Contains(Slice(frontmatter, m.start, m.end - 1), EMPTY_LIST)
         THEN [raised |-> FALSE,
               text |-> Replace(frontmatter, TAGS_KEY \o << SP >> \o EMPTY_LIST,
                                TAGS_KEY \o << NL >> \o updated_tags_str)]
         ELSE IF m.g1 = 0
              THEN [raised |-> TRUE, text |-> frontmatter]
              ELSE Only({ [raised |-> FALSE,
                           text |-> SubTagLists(frontmatter, repl, 1)] :
                          repl \in { TAGS_KEY \o << NL >> \o
                                     TagLines(SortedSet(SetOf(
                                       current_tags(Slice(frontmatter, m.g1, m.end - 1))
                                         \o new_tags)))
                                     \o << NL >> } })
    ELSE IF empty_tags_match(frontmatter)
         THEN [raised |-> FALSE,
               text |-> Replace(frontmatter, TAGS_KEY \o << NL >>,
                                TAGS_KEY \o << NL >> \o updated_tags_str \o << NL >>)]
         ELSE [raised |-> FALSE,
               text |-> frontmatter \o TAGS_KEY \o << NL >> \o updated_tags_str \o << NL >>] :
    m \in {tags_match(frontmatter)}, updated_tags_str \in {TagLines(Sorted(new_tags))} })

\* _update_frontmatter_tags on the text of the file: the text it writes
\* back, or raised when it raises before writing.
update_frontmatter_tags(content, new_tags) ==
  Only({
    IF close # 0
    THEN Only({ Only({ IF u.raised THEN [raised |-> TRUE, content |-> c]
                       ELSE [raised |-> FALSE, content |-> Replace(c, fm, u.text)] :
                       u \in {updated_frontmatter(fm, t)} }) :
                fm \in {Slice(c, Len(DASHES) + 1, close - 1)} })
    ELSE [raised |-> FALSE,
          content |-> DASHES \o << NL >> \o TAGS_KEY \o << NL >> \o TagLines(Sorted(t))
                        \o << NL >> \o DASHES \o << NL >> \o c] :
    c \in {content}, t \in {new_tags}, close \in {frontmatter_match(content)} })

\* tag.lower().replace(" ", "-")
NormalizeTag(tag) == Replace(Lower(tag), << SP >>, << "-" >>)

\* tags = [tag.lower().replace(" ", "-") for tag in tags]
NormalizeTags(tags) == [i \in 1..Len(tags) |-> NormalizeTag(tags[i])]

(***************************************************************************)
(* _process_single_file, stage by stage                                    *)
(***************************************************************************)
\* The backtick, which no string literal can hold.
BT == "<backtick>"
FENCE == << BT, BT, BT >>
FENCE_PYTHON == FENCE \o << "p", "y", "t", "h", "o", "n" >>

RECURSIVE CodeBlocksFrom(_, _)
\* re.findall(r"```python(.*?)```", file_contents, re.DOTALL) from position
\* i on, each block stripped and followed by a newline, concatenated.
CodeBlocksFrom(s, i) ==
  Only({ IF a = 0 THEN << >>
         ELSE Only({ IF b = 0 THEN << >>
                     ELSE Strip(Slice(s, a + Len(FENCE_PYTHON), b - 1)) \o << NL >>
                            \o CodeBlocksFrom(s, b + Len(FENCE)) :
                     b \in {Find(s, FENCE, a + Len(FENCE_PYTHON))} }) :
         a \in {Find(s, FENCE_PYTHON, i)} })

\* solution_code after the loop over the code blocks and the final strip().
solution_code(file_contents) ==
  Only({ Strip(CodeBlocksFrom(s, 1)) : s \in {file_contents} })

\* What client.chat.completions.create hands back, or that it raised.
\*   raise        the call raised
\*   not_json     text that json.loads rejects
\*   no_tags_key  a JSON object without the "tags" key
\*   tags         a JSON object whose "tags" is a list of strings
Response(kind, tags) == [kind |-> kind, tags |-> tags]

\* json.loads(tags_json) raises
json_loads_raises(tags_json) == tags_json.kind = "not_json"

\* tags_data.get("tags", [])
tags_of(tags_json) == IF tags_json.kind = "tags" THEN tags_json.tags ELSE << >>

\* A vocabulary update that keeps only the tags of this problem.
update_topics_file_overwrite(topics_list, problem_tags) ==
  SortedSet(SetOf(problem_tags))

\* all_tags of _update_topics_file: list(set(self.topics + problem_tags)), sorted.
update_topics_file(topics_list, problem_tags) ==
  SortedSet(SetOf(topics_list \o problem_tags))

\* self.processed_files.add(filename)
save_processed_file(processed, fname) == processed \cup {fname}

\* Where an open() or a json.dump can fail in one call: at most one failure,
\* since the first one ends the call (the json.dump one is caught, line 246).
IOFailures ==
  {"none", "read", "rewrite_read", "rewrite_write", "log_write", "topics_open", "topics_dump"}

\* The errors that end a call before its document is rewritten.
EarlyErrors == {"read", "no_code", "api", "json", "rewrite"}

\* Lines 112-126: read the file, extract the code; no code block returns False.
read_stage(fr, fname, io) ==
  IF io = "read" THEN [fr EXCEPT !.error = "read"]
  ELSE Only({ IF solution_code(file_contents) = << >> THEN [fr EXCEPT !.error = "no_code"]
              ELSE fr :
              file_contents \in {fr.disk[fname]} })

\* Lines 130-136: the API call, json.loads, the tag list and its normalisation.
api_stage(fr, tags_json) ==
  IF fr.error # "none" THEN fr
  ELSE IF tags_json.kind = "raise" THEN [fr EXCEPT !.error = "api"]
  ELSE IF json_loads_raises(tags_json) THEN [fr EXCEPT !.error = "json"]
  ELSE [fr EXCEPT !.tags = NormalizeTags(tags_of(tags_json))]

\* Line 139: _update_frontmatter_tags reads the file again, merges, writes back.
rewrite_stage(fr, fname, io) ==
  IF fr.error # "none" THEN fr
  ELSE IF io = "rewrite_read" THEN [fr EXCEPT !.error = "rewrite"]
  ELSE Only({ IF u.raised \/ io = "rewrite_write" THEN [fr EXCEPT !.error = "rewrite"]
              ELSE [fr EXCEPT !.disk[fname] = u.content] :
              u \in {update_frontmatter_tags(fr.disk[fname], fr.tags)} })

\* Line 140: _save_processed_file adds to the set, then writes the log.
save_stage(fr, fname, io) ==
  IF fr.error # "none" THEN fr
  ELSE IF io = "log_write"
       THEN [fr EXCEPT !.processed_files = save_processed_file(@, fname),
                       !.error = "log"]
       ELSE [fr EXCEPT !.processed_files = save_processed_file(@, fname),
                       !.processed_log = save_processed_file(fr.processed_files, fname)]

\* A vocabulary update that also runs when the rewrite of the document failed.
topics_stage_after_failed_rewrite(fr, io) ==
  IF fr.error \notin {"none", "rewrite"} THEN fr
  ELSE [fr EXCEPT !.topics = SortedSet(SetOf(fr.topics \o fr.tags)),
                  !.topics_file = SortedSet(SetOf(fr.topics \o fr.tags))]

\* Line 141: _update_topics_file sets self.topics, then opens and writes the
\* file; open("w") empties the file before json.dump writes it.
topics_stage(fr, io) ==
  IF fr.error # "none" THEN fr
  ELSE Only({ IF io = "topics_open"
              THEN [fr EXCEPT !.topics = all_tags, !.error = "topics"]
              ELSE IF io = "topics_dump"
                   THEN [fr EXCEPT !.topics = all_tags, !.topics_file = << >>]
                   ELSE [fr EXCEPT !.topics = all_tags, !.topics_file = all_tags] :
              all_tags \in {update_topics_file(fr.topics, fr.tags)} })

\* _process_single_file(filename) on the state fr, with the response of the
\* API and the place of the I/O failure: the state it leaves; it returns
\* True exactly when error is "none".
process_single_file(fr, fname, io, tags_json) ==
  Only({ topics_stage(d, io) :
           d \in { save_stage(c, fname, io) :
                     c \in { rewrite_stage(b, fname, io) :
                               b \in { api_stage(a, tags_json) :
                                         a \in { read_stage([fr EXCEPT !.error = "none",
                                                                       !.tags = << >>],
                                                            fname, io) } } } } })

(***************************************************************************)
(* Bounds and inputs                                                       *)
(***************************************************************************)
\* Files in the problem directory.
MaxFiles == 2
\* Tags in one response of the API, in the runs of the program.
MaxResponseTags == 1
\* Tags handed to the rewrite pipeline when it is run on its own.
MaxTags == 2
\* Times the pipeline is run on one document.
MaxRuns == 2

\* The .md files of the problem directory, by number.
Files == 1..MaxFiles

\* The lists of at most n elements of S.
Lists(S, n) == UNION { [1..k -> S] : k \in 0..n }

\* A document with a header: "---" header "---" body.
Doc(header, body) == DASHES \o header \o DASHES \o body

\* "dp", "array", "two-pointers", "binary-search", "Binary  Search", "Graph"
TagDp == << "d", "p" >>
TagArray == << "a", "r", "r", "a", "y" >>
TagTwoPointers == << "t", "w", "o", "-", "p", "o", "i", "n", "t", "e", "r", "s" >>
TagBinarySearch == << "b", "i", "n", "a", "r", "y", "-", "s", "e", "a", "r", "c", "h" >>
TagBinarySearchRaw == << "B", "i", "n", "a", "r", "y", SP, SP, "S", "e", "a", "r", "c", "h" >>
TagGraphRaw == << "G", "r", "a", "p", "h" >>

\* Headers (the text between the delimiters), one per shape:
\* "\nk: v\n": no tags key
HdrNoTags == << NL, "k", ":", SP, "v", NL >>
\* "\ntags: []\n"
HdrEmptyInline == << NL >> \o TAGS_KEY \o << SP, "[", "]", NL >>
\* "\ntags:\n": a bare key
HdrBare == << NL >> \o TAGS_KEY \o << NL >>
\* "\ntags:\n  - array\n  - dp\n"
HdrPopulated ==
  << NL >> \o TAGS_KEY \o << NL >> \o ITEM_PREFIX \o TagArray \o << NL >>
    \o ITEM_PREFIX \o TagDp \o << NL >>
\* "\nmytags:\n  - x\ntags:\n  - dp\n": another key whose name ends in "tags:"
HdrOtherTags ==
  << NL, "m", "y" >> \o TAGS_KEY \o << NL >> \o ITEM_PREFIX \o << "x", NL >>
    \o TAGS_KEY \o << NL >> \o ITEM_PREFIX \o TagDp \o << NL >>
\* "\ntags:\n  - binary-search\n"
HdrBinarySearch ==
  << NL >> \o TAGS_KEY \o << NL >> \o ITEM_PREFIX \o TagBinarySearch \o << NL >>
\* "\n": nothing between the delimiter lines
HdrEmpty == << NL >>
\* "": the closing delimiter follows the opening one at once
HdrNone == << >>
Headers ==
  {HdrNoTags, HdrEmptyInline, HdrBare, HdrPopulated, HdrBinarySearch, HdrOtherTags,
   HdrEmpty, HdrNone}

\* Bodies: "\nx\n", and "\nk: v\nx\n", which repeats the text of HdrNoTags.
BodyPlain == << NL, "x", NL >>
BodyEcho == << NL, "k", ":", SP, "v", NL, "x", NL >>
Bodies == {BodyPlain, BodyEcho}

\* The documents the pipeline is run on: every header with every body, and
\* "x\n", a document without a header.
DocNoFrontmatter == << "x", NL >>
PipelineDocs == { Doc(h, b) : h \in Headers, b \in Bodies } \cup {DocNoFrontmatter}

\* The raw tags the pipeline is handed.
RawTags == {TagDp, TagTwoPointers, TagBinarySearchRaw, TagBinarySearch}

\* "```python\nx\n```\n"
CodeBlock == FENCE_PYTHON \o << NL, "x", NL >> \o FENCE \o << NL >>
\* The documents of the problem directory: a populated header, no header,
\* and "tags: [ ]", on which _update_frontmatter_tags raises.
DocPopulated ==
  Doc(<< NL >> \o TAGS_KEY \o << NL >> \o ITEM_PREFIX \o TagDp \o << NL >>, << NL >> \o CodeBlock)
DocNoHeader == CodeBlock
DocSpacedList ==
  Doc(<< NL >> \o TAGS_KEY \o << SP, "[", SP, "]", NL >>, << NL >> \o CodeBlock)
DocsWithCode == << DocPopulated, DocNoHeader, DocSpacedList >>
\* A document without a Python code block.
DocNoCode == Doc(HdrEmptyInline, BodyPlain)

\* The content of file f when it holds code.
DocOf(f) == DocsWithCode[((f - 1) % Len(DocsWithCode)) + 1]

\* topics.json as _load_topics finds it.
InitialTopics == << TagArray, TagDp >>

\* The responses of the API.
ResponseTags == {TagGraphRaw}
Responses ==
  { Response(k, << >>) : k \in {"raise", "not_json", "no_tags_key"} }
    \cup { Response("tags", t) : t \in Lists(ResponseTags, MaxResponseTags) }
NoResponse == Response("none", << >>)

(***************************************************************************)
(* State                                                                   *)
(***************************************************************************)
VARIABLES
  disk,             \* the problem directory: file -> text
  topics_file,      \* topics.json
  processed_log,    \* processed_files.json
  topics,           \* self.topics
  processed_files,  \* self.processed_files
  selected_problem, \* self.selected_problem (0: None)
  pc,               \* where get_tags_for_solution / process_all_files stands
  files_to_process, \* process_all_files: the list being processed
  i,                \* process_all_files: files of the list handled so far
  successful,       \* process_all_files: counter
  failed,           \* process_all_files: counter
  filename,         \* the last _process_single_file call: its argument (0: none)
  tags_json,        \* ... the response of the API (NoResponse: not called)
  tags,             \* ... the normalised tags
  error,            \* ... "none" when it returned True, else what ended it
  calls,            \* the arguments of the _process_single_file calls so far
  document,         \* pipeline run on its own: the document it started from
  incoming,         \* ... the raw tags handed to it
  new_tags,         \* ... the tags after normalisation
  content,          \* ... the text of the document now
  first,            \* ... the text after the first run
  runs              \* ... the number of runs so far

fs == << disk, topics_file, processed_log >>
self == << topics, processed_files, selected_problem >>
batch == << pc, files_to_process, i, successful, failed >>
call == << filename, tags_json, tags, error, calls >>
pipeline == << document, incoming, new_tags, content, first, runs >>
vars == << fs, self, batch, call, pipeline >>

\* self.problems: os.listdir in a fixed order.
problems == [f \in 1..MaxFiles |-> f]

\* The state one _process_single_file call works on.
Frame ==
  [disk |-> disk, topics_file |-> topics_file, processed_log |-> processed_log,
   topics |-> topics, processed_files |-> processed_files,
   tags |-> << >>, error |-> "none"]

(***************************************************************************)
(* The program: get_tags_for_solution, process_all_files                   *)
(***************************************************************************)
\* The state after TagGenerator(...) is constructed: topics and the processed
\* files are loaded from their files; at most one file holds no code block.
ProgramInit ==
  /\ \E nocode \in SUBSET Files :
       /\ Cardinality(nocode) <= 1
       /\ disk = [f \in Files |-> IF f \in nocode THEN DocNoCode ELSE DocOf(f)]
  /\ topics_file = InitialTopics
  /\ topics = topics_file
  /\ processed_log \in SUBSET Files
  /\ processed_files = processed_log
  /\ selected_problem = 0
  /\ pc = "start"
  /\ files_to_process = << >>
  /\ i = 0
  /\ successful = 0
  /\ failed = 0
  /\ filename = 0
  /\ tags_json = NoResponse
  /\ tags = << >>
  /\ error = "none"
  /\ calls = << >>

\* The pipeline variables while the program runs.
PipelineIdle ==
  /\ document = << >>
  /\ incoming = << >>
  /\ new_tags = << >>
  /\ content = << >>
  /\ first = << >>
  /\ runs = 0

Init == ProgramInit /\ PipelineIdle

\* [p for p in self.problems if p not in self.processed_files]
unprocessed_problems == SelectSeq(problems, LAMBDA p : p \notin processed_files)

\* One call self._process_single_file(fname): what it does to the files and
\* to the object, with the API answering tags_json' and I/O failing at io.
ProcessSingleFile(fname, io, response) ==
  \E fr \in {process_single_file(Frame, fname, io, response)} :
      /\ disk' = fr.disk
      /\ topics_file' = fr.topics_file
      /\ processed_log' = fr.processed_log
      /\ topics' = fr.topics
      /\ processed_files' = fr.processed_files
      /\ filename' = fname
      /\ tags_json' = IF fr.error \in {"read", "no_code"} THEN NoResponse ELSE response
      /\ tags' = fr.tags
      /\ error' = fr.error
      /\ calls' = Append(calls, fname)

\* A tally that counts the successes only.
tally_successes_only(counters, returned) ==
  IF returned THEN [counters EXCEPT !.successful = @ + 1] ELSE counters

\* successful += 1 / failed += 1 on the value the call returned.
tally(counters, returned) ==
  IF returned THEN [counters EXCEPT !.successful = @ + 1]
  ELSE [counters EXCEPT !.failed = @ + 1]

\* get_tags_for_solution: the user picks a mode. "single" asks for one of the
\* unprocessed problems; the other two enter process_all_files.
SelectMode ==
  /\ pc = "start"
  /\ \E mode \in {"single", "all", "regenerate"} :
       IF mode = "single"
       THEN /\ IF unprocessed_problems = << >>
               THEN pc' = "done" /\ selected_problem' = 0
               ELSE /\ pc' = "single"
                    /\ \E p \in SetOf(unprocessed_problems) : selected_problem' = p
            /\ UNCHANGED << files_to_process, i, successful, failed >>
       ELSE /\ files_to_process' =
                 IF mode = "regenerate" THEN problems ELSE unprocessed_problems
            /\ pc' = IF files_to_process' = << >> THEN "done" ELSE "loop"
            /\ i' = 0
            /\ successful' = 0
            /\ failed' = 0
            /\ UNCHANGED selected_problem
  /\ UNCHANGED << fs, topics, processed_files, call, pipeline >>

\* Single mode: self._process_single_file(self.selected_problem).
ProcessSelected ==
  /\ pc = "single"
  /\ \E io \in IOFailures, response \in Responses :
       ProcessSingleFile(selected_problem, io, response)
  /\ pc' = "done"
  /\ UNCHANGED << selected_problem, files_to_process, i, successful, failed, pipeline >>

\* One iteration of the for loop of process_all_files.
LoopStep ==
  /\ pc = "loop"
  /\ i < Len(files_to_process)
  /\ \E io \in IOFailures, response \in Responses :
       ProcessSingleFile(files_to_process[i + 1], io, response)
  /\ \E c \in {tally([successful |-> successful, failed |-> failed], error' = "none")} :
       successful' = c.successful /\ failed' = c.failed
  /\ i' = i + 1
  /\ UNCHANGED << selected_problem, pc, files_to_process, pipeline >>

\* The loop is over: the summary is printed.
LoopEnd ==
  /\ pc = "loop"
  /\ i = Len(files_to_process)
  /\ pc' = "done"
  /\ UNCHANGED << fs, self, files_to_process, i, successful, failed, call, pipeline >>

Next == SelectMode \/ ProcessSelected \/ LoopStep \/ LoopEnd

Spec == Init /\ [][Next]_vars

\* The program is sequential and every call returns or raises: it goes on
\* until it is done.
FairSpec == Spec /\ WF_vars(Next)

(***************************************************************************)
(* The merge-and-rewrite pipeline on its own: the normalisation of line    *)
(* 136, then _update_frontmatter_tags, run again and again on one document *)
(* with the same incoming tags.                                            *)
(***************************************************************************)
PipelineInit ==
  /\ disk = [f \in Files |-> DocOf(f)]
  /\ topics_file = InitialTopics
  /\ topics = InitialTopics
  /\ processed_log = {}
  /\ processed_files = {}
  /\ selected_problem = 0
  /\ pc = "pipeline"
  /\ files_to_process = << >>
  /\ i = 0
  /\ successful = 0
  /\ failed = 0
  /\ filename = 0
  /\ tags_json = NoResponse
  /\ tags = << >>
  /\ error = "none"
  /\ calls = << >>
  /\ document \in PipelineDocs
  /\ incoming \in Lists(RawTags, MaxTags)
  /\ new_tags = << >>
  /\ content = document
  /\ first = document
  /\ runs = 0

\* Lines 136 and 139 on the document; a raise leaves the file as it was.
Rewrite ==
  /\ runs < MaxRuns
  /\ new_tags' = NormalizeTags(incoming)
  /\ content' = update_frontmatter_tags(content, new_tags').content
  /\ first' = IF runs = 0 THEN content' ELSE first
  /\ runs' = runs + 1
  /\ UNCHANGED << fs, self, batch, call, document, incoming >>

PipelineNext == Rewrite

PipelineSpec == PipelineInit /\ [][PipelineNext]_vars

(***************************************************************************)
(* Reading a document by its lines, as the claims speak of it: the header  *)
(* is the text between the delimiters, the tags key is the line "tags:",   *)
(* its list items are the item lines that follow it.                       *)
(***************************************************************************)
HasHeader(text) == frontmatter_match(text) # 0

\* The text after the closing delimiter; the whole text without a header.
BodyOf(text) ==
  IF HasHeader(text)
  THEN Slice(text, frontmatter_match(text) + Len(DASHES), Len(text))
  ELSE text

HeaderLines(text) == IF HasHeader(text) THEN Split(MatchedFrontmatter(text), NL) ELSE << >>

IsItemLine(line) == Strip(line) # << >> /\ Strip(line)[1] = "-"

\* The line of the tags key: "tags:" or "tags: []"; 0 when there is none.
TagsKeyLine(lines) ==
  Only({ IF at = {} THEN 0 ELSE First(at) :
         at \in { { k \in 1..Len(lines) :
                    lines[k] \in {TAGS_KEY, TAGS_KEY \o << SP >> \o EMPTY_LIST} } } })

\* The lines of the list under the tags key.
ItemLinesOf(lines) ==
  Only({ IF key = 0 THEN {}
         ELSE { k \in (key + 1)..Len(lines) :
                \A h \in (key + 1)..k : IsItemLine(lines[h]) } :
         key \in {TagsKeyLine(lines)} })

\* The tags listed under the tags key, in the order of the lines.
ListedTags(text) ==
  Only({ Only({ [k \in 1..Len(listed) |-> Strip(Tail(Strip(lines[listed[k]])))] :
                listed \in { SelectSeq([k \in 1..Len(lines) |-> k],
                                       LAMBDA k : k \in ItemLinesOf(lines)) } }) :
         lines \in {HeaderLines(text)} })

\* The header lines that are not list items of the tags key, blank lines
\* left out, and "tags: []" read as the key "tags:".
OtherHeaderLines(text) ==
  Only({ Only({ [k \in 1..Len(kept) |->
                   IF lines[kept[k]] = TAGS_KEY \o << SP >> \o EMPTY_LIST
                   THEN TAGS_KEY ELSE lines[kept[k]]] :
                kept \in { SelectSeq([k \in 1..Len(lines) |-> k],
                                     LAMBDA k : k \notin ItemLinesOf(lines)
                                                  /\ Strip(lines[k]) # << >>) } }) :
         lines \in {HeaderLines(text)} })

RECURSIVE CollapseSpaces(_)
\* Each run of whitespace becomes one hyphen.
CollapseSpaces(t) ==
  IF t = << >> THEN << >>
  ELSE IF IsSpace(t[1])
       THEN << "-" >> \o CollapseSpaces(Slice(t, SkipSpace(t, 1), Len(t)))
       ELSE << t[1] >> \o CollapseSpaces(Tail(t))

\* The normal form of a tag: lowercase, whitespace runs as single hyphens,
\* no leading or trailing hyphen.
CanonicalTag(t) == StripChar(CollapseSpaces(Lower(t)), "-")

(***************************************************************************)
(* Claims about the pipeline (PipelineSpec)                                *)
(***************************************************************************)
\* C1: running the normalisation and _update_frontmatter_tags twice with the
\* same incoming tags leaves the text the first run left.
C1_RewriteIdempotent == runs = 2 => content = first

\* C2: the body after the rewrite is the body before it, exactly; a document
\* without a header follows the new header unchanged.
C2_BodyPreserved ==
  runs >= 1 =>
    IF HasHeader(document)
    THEN BodyOf(first) = BodyOf(document)
    ELSE /\ Len(first) >= Len(document)
         /\ Slice(first, Len(first) - Len(document) + 1, Len(first)) = document
         /\ BodyOf(first) = << NL >> \o document

\* C3: with a bare or populated tags key only the list items of that key
\* change: the other header lines stay, and the list written is the list of
\* that key merged with the incoming tags.
C3_HeaderFrame ==
  (runs >= 1 /\ TAGS_KEY \in SetOf(HeaderLines(document))) =>
    /\ OtherHeaderLines(first) = OtherHeaderLines(document)
    /\ SetOf(ListedTags(first)) = SetOf(ListedTags(document)) \cup SetOf(new_tags)

\* C4: the list written is the union of the existing and the incoming tags,
\* each once, ascending.
C4_SortedUnion ==
  runs >= 1 => ListedTags(first) = SortedSet(SetOf(ListedTags(document)) \cup SetOf(new_tags))

\* C5: every incoming tag is merged in its normal form, so a tag the list
\* holds already gets no second entry.
C5_Normalized ==
  runs >= 1 =>
    /\ \A k \in 1..Len(incoming) : new_tags[k] = CanonicalTag(incoming[k])
    /\ \A k \in 1..Len(incoming) :
         CanonicalTag(incoming[k]) \in SetOf(ListedTags(document)) =>
           Cardinality({ h \in 1..Len(ListedTags(first)) :
                         CanonicalTag(ListedTags(first)[h]) = CanonicalTag(incoming[k]) }) = 1

(***************************************************************************)
(* Claims about the program (Spec, FairSpec)                               *)
(***************************************************************************)
\* A step that is one _process_single_file call.
IsCall == calls' # calls

\* C6: self.topics after a _process_single_file call holds all it held
\* before, and when _update_topics_file ran it is exactly the old vocabulary
\* with the tags of the call.
C6_VocabularyMonotone ==
  [][ /\ SetOf(topics) \subseteq SetOf(topics')
      /\ (IsCall /\ error' \in {"none", "topics"}) =>
           SetOf(topics') = SetOf(topics) \cup SetOf(tags') ]_vars

\* A call has succeeded after an earlier call and the vocabulary has grown.
C6_VocabularyGrew ==
  /\ Len(calls) >= 2
  /\ error = "none"
  /\ SetOf(topics) # SetOf(InitialTopics)
  /\ SetOf(InitialTopics) \subseteq SetOf(topics)

\* C7: when the suggestion call raises, answers text that is no JSON, or
\* answers an object without the tag list, the call fails, the document and
\* the processed set and the vocabulary stay as they were.
C7_SuggestionErrorsFail ==
  [][ (IsCall /\ tags_json'.kind \in {"raise", "not_json", "no_tags_key"}) =>
        /\ error' # "none"
        /\ disk' = disk
        /\ processed_files' = processed_files
        /\ topics' = topics ]_vars

\* C8: process_all_files ends, having called _process_single_file once on
\* every file of files_to_process, in order, whatever failed, and with
\* successful + failed the number of files.
C8_BatchCompletes ==
  (pc = "loop") ~>
    (/\ pc = "done"
     /\ calls = files_to_process
     /\ successful + failed = Len(files_to_process))

\* A batch is done in which a call failed and a later one succeeded.
C8_FailureThenSuccess ==
  /\ pc = "done"
  /\ Len(files_to_process) >= 2
  /\ calls = files_to_process
  /\ failed >= 1
  /\ error = "none"

\* C9: a call changes the vocabulary (self.topics, topics.json) only once
\* _update_frontmatter_tags has written the document; when the read, the
\* tag generation or the rewrite fails, the vocabulary stays as it was.
C9_VocabularyAfterRewrite ==
  [][ IsCall =>
        /\ (topics' # topics \/ topics_file' # topics_file) =>
             /\ error' \notin EarlyErrors
             /\ ~update_frontmatter_tags(disk[filename'], tags').raised
             /\ disk'[filename'] = update_frontmatter_tags(disk[filename'], tags').content
        /\ error' \in EarlyErrors => (topics' = topics /\ topics_file' = topics_file) ]_vars

\* The rewrite of a document failed for tags the vocabulary does not hold,
\* and the vocabulary is the initial one.
C9_RewriteFailedVocabularyKept ==
  /\ error = "rewrite"
  /\ ~(SetOf(tags) \subseteq SetOf(InitialTopics))
  /\ topics = InitialTopics
  /\ topics_file = InitialTopics

\* C10: a call that returns False leaves self.processed_files and
\* self.topics as they were.
C10_SharedStateOnlyOnSuccess ==
  [][ (IsCall /\ error' # "none") =>
        (processed_files' = processed_files /\ topics' = topics) ]_vars

====
